---- MODULE Spec2Model ----
(***************************************************************************)
(* The mirror_oracle contract (src/mirror_oracle/src/contract.rs) as a     *)
(* state machine over its persistent storage.                              *)
(*                                                                         *)
(* Addresses are the strings the messages carry (HumanAddr); the Api       *)
(* resolves them to canonical addresses and may refuse a malformed one.    *)
(* Decimal values are written in tenths: 12 is 1.2, 10 is Decimal::one().  *)
(***************************************************************************)
EXTENDS Integers, Sequences, FiniteSets, TLC

VARIABLES
    storage,      \* deps.storage: the Config singleton, the Asset and the Price bucket
    now,          \* the block time the host hands the next invocation (env.block.time)
    last,         \* the latest invocation: its Env, its message and what it returned
    transfer      \* history: the latest change of owner, <<>> or <<[from, to]>>

vars == <<storage, now, last, transfer>>

----------------------------------------------------------------------------
(* Bounds and input domains *)

MaxTime == 1

Times == 0 .. MaxTime

Symbols == {"mAPPL", "uusd"}

\* env.message.sender: the host hands the handlers the address of a signer
Senders == {"owner0000", "addr0000"}

\* addresses a message may carry; "x" is malformed (shorter than 3 bytes)
OwnerInputs == {"owner0000", "addr0000", "x"}
FeederInputs == {"addr0000", "x"}
TokenInputs == {"asset0000", "x"}
BaseDenoms == {"base0000"}

PriceInputs == {5, 12}
MultiplierInputs == {25}

----------------------------------------------------------------------------
(* Option, StdResult, StdError *)

None == <<>>
Some(x) == <<x>>
IsSome(o) == o # None
Unwrap(o) == o[1]

Ok(v) == [ok |-> TRUE, val |-> v]
Err(e) == [ok |-> FALSE, err |-> e]
IsOk(r) == r.ok
IsErr(r) == ~r.ok

Unauthorized == [kind |-> "Unauthorized", msg |-> ""]
generic_err(m) == [kind |-> "GenericErr", msg |-> m]
not_found(k) == [kind |-> "NotFound", msg |-> k]

----------------------------------------------------------------------------
(* Decimal *)

DecimalZero == 0
DecimalOne == 10

----------------------------------------------------------------------------
(* Api: the identity resolution the handlers call *)

CanonicalLength == 20

\* the bytes of the address followed by zero bytes up to the canonical length
canonical_address(human) ==
    IF Len(human) < 3
    THEN Err(generic_err("Invalid input: human address too short"))
    ELSE IF Len(human) > CanonicalLength
    THEN Err(generic_err("Invalid input: human address too long"))
    ELSE Ok([bytes |-> human, pad |-> CanonicalLength - Len(human)])

\* the canonical address without its trailing zero bytes
human_address(canonical) ==
    IF Len(canonical.bytes) + canonical.pad # CanonicalLength
    THEN Err(generic_err("Invalid input: canonical address length not correct"))
    ELSE Ok(canonical.bytes)

----------------------------------------------------------------------------
(* state: the typed accessors of the storage *)

EmptyStorage ==
    [config |-> None,
     asset  |-> [s \in Symbols |-> None],
     price  |-> [s \in Symbols |-> None]]

store_config(st, config) == [st EXCEPT !.config = Some(config)]

read_config(st) ==
    IF IsSome(st.config) THEN Ok(Unwrap(st.config)) ELSE Err(not_found("Config"))

store_asset(st, symbol, asset) == [st EXCEPT !.asset[symbol] = Some(asset)]

read_asset(st, symbol) ==
    IF IsSome(st.asset[symbol])
    THEN Ok(Unwrap(st.asset[symbol]))
    ELSE Err(generic_err("no asset data stored"))

store_price(st, symbol, price) == [st EXCEPT !.price[symbol] = Some(price)]

read_price(st, symbol) ==
    IF IsSome(st.price[symbol])
    THEN Ok(Unwrap(st.price[symbol]))
    ELSE Err(generic_err("no price data stored"))

----------------------------------------------------------------------------
(* Responses *)

InitResponseDefault == [messages |-> <<>>, log |-> <<>>]
HandleResponseDefault == [messages |-> <<>>, log |-> <<>>, data |-> None]

log(key, value) == [key |-> key, value |-> value]

\* what a handler leaves behind: the storage as written so far, and its result
Outcome(st, result) == [storage |-> st, result |-> result]

----------------------------------------------------------------------------
(* Decimal::to_string: the whole part, then the fraction when it is not zero *)

\* A variant with a slip in it: the digits without the decimal point
DecimalToString_Raw(d) == ToString(d)

DecimalToString(d) ==
    IF d % DecimalOne = 0
    THEN ToString(d \div DecimalOne)
    ELSE ToString(d \div DecimalOne) \o "." \o ToString(d % DecimalOne)

----------------------------------------------------------------------------
(* The entry points.  Each takes the storage, the Env and the message and  *)
(* gives the storage as it leaves it together with its result; a `?` or a  *)
(* return leaves the storage as written up to that point.                  *)

init(st, env, msg) ==
    LET owner == canonical_address(msg.owner) IN
    IF IsErr(owner) THEN Outcome(st, owner)
    ELSE Outcome(store_config(st, [owner |-> owner.val, base_denom |-> msg.base_denom]),
                 Ok(InitResponseDefault))

\* Variants of try_update_config with a slip in them; the properties below must tell
\* each from the handler as written.

\* the owner check made after the write instead of before it
try_update_config_CheckLate(st, env, owner) ==
    LET config == read_config(st) IN
    IF IsErr(config) THEN Outcome(st, config)
    ELSE LET sender == canonical_address(env.sender) IN
    IF IsErr(sender) THEN Outcome(st, sender)
    ELSE LET new_owner == IF IsSome(owner)
                          THEN canonical_address(Unwrap(owner))
                          ELSE Ok(config.val.owner) IN
    IF IsErr(new_owner) THEN Outcome(st, new_owner)
    ELSE LET st1 == store_config(st, [config.val EXCEPT !.owner = new_owner.val]) IN
    IF sender.val # config.val.owner THEN Outcome(st1, Err(Unauthorized))
    ELSE Outcome(st1, Ok(HandleResponseDefault))

\* the owner check left out
try_update_config_NoCheck(st, env, owner) ==
    LET config == read_config(st) IN
    IF IsErr(config) THEN Outcome(st, config)
    ELSE LET new_owner == IF IsSome(owner)
                          THEN canonical_address(Unwrap(owner))
                          ELSE Ok(config.val.owner) IN
    IF IsErr(new_owner) THEN Outcome(st, new_owner)
    ELSE Outcome(store_config(st, [config.val EXCEPT !.owner = new_owner.val]),
                 Ok(HandleResponseDefault))

\* the Config built anew, its base_denom left empty
try_update_config_NewConfig(st, env, owner) ==
    LET config == read_config(st) IN
    IF IsErr(config) THEN Outcome(st, config)
    ELSE LET sender == canonical_address(env.sender) IN
    IF IsErr(sender) THEN Outcome(st, sender)
    ELSE IF sender.val # config.val.owner THEN Outcome(st, Err(Unauthorized))
    ELSE LET new_owner == IF IsSome(owner)
                          THEN canonical_address(Unwrap(owner))
                          ELSE Ok(config.val.owner) IN
    IF IsErr(new_owner) THEN Outcome(st, new_owner)
    ELSE Outcome(store_config(st, [owner |-> new_owner.val, base_denom |-> ""]),
                 Ok(HandleResponseDefault))

\* a message without a new owner taken for an error
try_update_config_NoneRejected(st, env, owner) ==
    LET config == read_config(st) IN
    IF IsErr(config) THEN Outcome(st, config)
    ELSE LET sender == canonical_address(env.sender) IN
    IF IsErr(sender) THEN Outcome(st, sender)
    ELSE IF sender.val # config.val.owner THEN Outcome(st, Err(Unauthorized))
    ELSE IF owner = None THEN Outcome(st, Err(generic_err("no owner given")))
    ELSE LET new_owner == canonical_address(Unwrap(owner)) IN
    IF IsErr(new_owner) THEN Outcome(st, new_owner)
    ELSE Outcome(store_config(st, [config.val EXCEPT !.owner = new_owner.val]),
                 Ok(HandleResponseDefault))

try_update_config(st, env, owner) ==
    LET config == read_config(st) IN
    IF IsErr(config) THEN Outcome(st, config)
    ELSE LET sender == canonical_address(env.sender) IN
    IF IsErr(sender) THEN Outcome(st, sender)
    ELSE IF sender.val # config.val.owner THEN Outcome(st, Err(Unauthorized))
    ELSE LET new_owner == IF IsSome(owner)
                          THEN canonical_address(Unwrap(owner))
                          ELSE Ok(config.val.owner) IN
    IF IsErr(new_owner) THEN Outcome(st, new_owner)
    ELSE Outcome(store_config(st, [config.val EXCEPT !.owner = new_owner.val]),
                 Ok(HandleResponseDefault))

\* Variants of try_register_asset with a slip in them.

\* the check for an existing Asset left out
try_register_asset_Overwrite(st, env, symbol, feeder, token) ==
    LET f == canonical_address(feeder) IN
    IF IsErr(f) THEN Outcome(st, f)
    ELSE LET t == canonical_address(token) IN
    IF IsErr(t) THEN Outcome(st, t)
    ELSE Outcome(store_price(store_asset(st, symbol,
                     [symbol |-> symbol, feeder |-> f.val, token |-> t.val]),
                     symbol,
                     [price |-> DecimalZero, price_multiplier |-> DecimalOne,
                      last_update_time |-> 0]),
                 Ok(HandleResponseDefault))

\* feeder and token stored in each other's field
try_register_asset_Swapped(st, env, symbol, feeder, token) ==
    IF IsOk(read_asset(st, symbol)) THEN Outcome(st, Err(Unauthorized))
    ELSE LET f == canonical_address(feeder) IN
    IF IsErr(f) THEN Outcome(st, f)
    ELSE LET t == canonical_address(token) IN
    IF IsErr(t) THEN Outcome(st, t)
    ELSE Outcome(store_price(store_asset(st, symbol,
                     [symbol |-> symbol, feeder |-> t.val, token |-> f.val]),
                     symbol,
                     [price |-> DecimalZero, price_multiplier |-> DecimalOne,
                      last_update_time |-> 0]),
                 Ok(HandleResponseDefault))

\* the Price written first, before the addresses of the Asset are resolved
try_register_asset_PriceFirst(st, env, symbol, feeder, token) ==
    IF IsOk(read_asset(st, symbol)) THEN Outcome(st, Err(Unauthorized))
    ELSE LET st1 == store_price(st, symbol,
                        [price |-> DecimalZero, price_multiplier |-> DecimalOne,
                         last_update_time |-> 0]) IN
    LET f == canonical_address(feeder) IN
    IF IsErr(f) THEN Outcome(st1, f)
    ELSE LET t == canonical_address(token) IN
    IF IsErr(t) THEN Outcome(st1, t)
    ELSE Outcome(store_asset(st1, symbol,
                     [symbol |-> symbol, feeder |-> f.val, token |-> t.val]),
                 Ok(HandleResponseDefault))

\* an owner check added, but after the two writes
try_register_asset_GateAfterWrite(st, env, symbol, feeder, token) ==
    IF IsOk(read_asset(st, symbol)) THEN Outcome(st, Err(Unauthorized))
    ELSE LET f == canonical_address(feeder) IN
    IF IsErr(f) THEN Outcome(st, f)
    ELSE LET t == canonical_address(token) IN
    IF IsErr(t) THEN Outcome(st, t)
    ELSE LET st2 == store_price(store_asset(st, symbol,
                        [symbol |-> symbol, feeder |-> f.val, token |-> t.val]),
                        symbol,
                        [price |-> DecimalZero, price_multiplier |-> DecimalOne,
                         last_update_time |-> 0]) IN
    IF IsErr(read_config(st))
       \/ canonical_address(env.sender) # Ok(read_config(st).val.owner)
    THEN Outcome(st2, Err(Unauthorized))
    ELSE Outcome(st2, Ok(HandleResponseDefault))

\* an owner check added before the duplicate check
try_register_asset_OwnerGated(st, env, symbol, feeder, token) ==
    IF IsErr(read_config(st))
       \/ canonical_address(env.sender) # Ok(read_config(st).val.owner)
    THEN Outcome(st, Err(Unauthorized))
    ELSE IF IsOk(read_asset(st, symbol)) THEN Outcome(st, Err(Unauthorized))
    ELSE LET f == canonical_address(feeder) IN
    IF IsErr(f) THEN Outcome(st, f)
    ELSE LET t == canonical_address(token) IN
    IF IsErr(t) THEN Outcome(st, t)
    ELSE Outcome(store_price(store_asset(st, symbol,
                     [symbol |-> symbol, feeder |-> f.val, token |-> t.val]),
                     symbol,
                     [price |-> DecimalZero, price_multiplier |-> DecimalOne,
                      last_update_time |-> 0]),
                 Ok(HandleResponseDefault))

\* the Asset written without its Price
try_register_asset_NoPrice(st, env, symbol, feeder, token) ==
    IF IsOk(read_asset(st, symbol)) THEN Outcome(st, Err(Unauthorized))
    ELSE LET f == canonical_address(feeder) IN
    IF IsErr(f) THEN Outcome(st, f)
    ELSE LET t == canonical_address(token) IN
    IF IsErr(t) THEN Outcome(st, t)
    ELSE Outcome(store_asset(st, symbol,
                     [symbol |-> symbol, feeder |-> f.val, token |-> t.val]),
                 Ok(HandleResponseDefault))

\* the Price stamped with the block time of the registration
try_register_asset_StampTime(st, env, symbol, feeder, token) ==
    IF IsOk(read_asset(st, symbol)) THEN Outcome(st, Err(Unauthorized))
    ELSE LET f == canonical_address(feeder) IN
    IF IsErr(f) THEN Outcome(st, f)
    ELSE LET t == canonical_address(token) IN
    IF IsErr(t) THEN Outcome(st, t)
    ELSE Outcome(store_price(store_asset(st, symbol,
                     [symbol |-> symbol, feeder |-> f.val, token |-> t.val]),
                     symbol,
                     [price |-> DecimalZero, price_multiplier |-> DecimalOne,
                      last_update_time |-> env.time]),
                 Ok(HandleResponseDefault))

\* a registered symbol registered anew when the caller is its feeder
try_register_asset_FeederMayReplace(st, env, symbol, feeder, token) ==
    LET old == read_asset(st, symbol) IN
    IF IsOk(old) /\ canonical_address(env.sender) # Ok(old.val.feeder)
    THEN Outcome(st, Err(Unauthorized))
    ELSE LET f == canonical_address(feeder) IN
    IF IsErr(f) THEN Outcome(st, f)
    ELSE LET t == canonical_address(token) IN
    IF IsErr(t) THEN Outcome(st, t)
    ELSE LET st1 == store_asset(st, symbol,
                        [symbol |-> symbol, feeder |-> f.val, token |-> t.val])
             st2 == store_price(st1, symbol,
                        [price |-> DecimalZero,
                         price_multiplier |-> DecimalOne,
                         last_update_time |-> 0])
         IN  Outcome(st2, Ok(HandleResponseDefault))

try_register_asset(st, env, symbol, feeder, token) ==
    IF IsOk(read_asset(st, symbol)) THEN Outcome(st, Err(Unauthorized))
    ELSE LET f == canonical_address(feeder) IN
    IF IsErr(f) THEN Outcome(st, f)
    ELSE LET t == canonical_address(token) IN
    IF IsErr(t) THEN Outcome(st, t)
    ELSE LET st1 == store_asset(st, symbol,
                        [symbol |-> symbol, feeder |-> f.val, token |-> t.val])
             st2 == store_price(st1, symbol,
                        [price |-> DecimalZero,
                         price_multiplier |-> DecimalOne,
                         last_update_time |-> 0])
         IN  Outcome(st2, Ok(HandleResponseDefault))

\* the response of a price feed: no messages, the action and the price in the log
PriceFeedResponse(price) ==
    Ok([messages |-> <<>>,
        log |-> <<log("action", "price_feed"), log("price", DecimalToString(price))>>,
        data |-> None])

\* Variants of try_feed_price with a slip in them.

\* the caller compared with the owner of Config instead of the feeder of the Asset
try_feed_price_OwnerGate(st, env, symbol, price, price_multiplier) ==
    LET asset == read_asset(st, symbol) IN
    IF IsErr(asset) THEN Outcome(st, asset)
    ELSE IF IsErr(read_config(st))
       \/ canonical_address(env.sender) # Ok(read_config(st).val.owner)
    THEN Outcome(st, Err(Unauthorized))
    ELSE LET state == read_price(st, symbol) IN
    IF IsErr(state) THEN Outcome(st, state)
    ELSE LET state1 == [state.val EXCEPT !.last_update_time = env.time,
                                         !.price = price]
             state2 == IF IsSome(price_multiplier)
                       THEN [state1 EXCEPT !.price_multiplier = Unwrap(price_multiplier)]
                       ELSE state1
         IN  Outcome(store_price(st, symbol, state2), PriceFeedResponse(price))

\* a missing multiplier taken as 1 instead of as "keep the stored one"
try_feed_price_ResetMultiplier(st, env, symbol, price, price_multiplier) ==
    LET asset == read_asset(st, symbol) IN
    IF IsErr(asset) THEN Outcome(st, asset)
    ELSE IF canonical_address(env.sender) # Ok(asset.val.feeder)
    THEN Outcome(st, Err(Unauthorized))
    ELSE LET state == read_price(st, symbol) IN
    IF IsErr(state) THEN Outcome(st, state)
    ELSE Outcome(store_price(st, symbol,
                     [price |-> price,
                      price_multiplier |-> IF IsSome(price_multiplier)
                                           THEN Unwrap(price_multiplier)
                                           ELSE DecimalOne,
                      last_update_time |-> env.time]),
                 PriceFeedResponse(price))

\* the Price written before the Asset is looked up
try_feed_price_WriteFirst(st, env, symbol, price, price_multiplier) ==
    LET st1 == store_price(st, symbol,
                   [price |-> price,
                    price_multiplier |-> IF IsSome(price_multiplier)
                                         THEN Unwrap(price_multiplier)
                                         ELSE DecimalOne,
                    last_update_time |-> env.time])
        asset == read_asset(st, symbol) IN
    IF IsErr(asset) THEN Outcome(st1, asset)
    ELSE IF canonical_address(env.sender) # Ok(asset.val.feeder)
    THEN Outcome(st, Err(Unauthorized))
    ELSE LET state == read_price(st, symbol) IN
    IF IsErr(state) THEN Outcome(st, state)
    ELSE LET state1 == [state.val EXCEPT !.last_update_time = env.time,
                                         !.price = price]
             state2 == IF IsSome(price_multiplier)
                       THEN [state1 EXCEPT !.price_multiplier = Unwrap(price_multiplier)]
                       ELSE state1
         IN  Outcome(store_price(st, symbol, state2), PriceFeedResponse(price))

\* the feeder check left out
try_feed_price_AnyCaller(st, env, symbol, price, price_multiplier) ==
    LET asset == read_asset(st, symbol) IN
    IF IsErr(asset) THEN Outcome(st, asset)
    ELSE LET state == read_price(st, symbol) IN
    IF IsErr(state) THEN Outcome(st, state)
    ELSE LET state1 == [state.val EXCEPT !.last_update_time = env.time,
                                         !.price = price]
             state2 == IF IsSome(price_multiplier)
                       THEN [state1 EXCEPT !.price_multiplier = Unwrap(price_multiplier)]
                       ELSE state1
         IN  Outcome(store_price(st, symbol, state2), PriceFeedResponse(price))

\* the update time kept when the block time is not later than it
try_feed_price_LatestTime(st, env, symbol, price, price_multiplier) ==
    LET asset == read_asset(st, symbol) IN
    IF IsErr(asset) THEN Outcome(st, asset)
    ELSE IF canonical_address(env.sender) # Ok(asset.val.feeder)
    THEN Outcome(st, Err(Unauthorized))
    ELSE LET state == read_price(st, symbol) IN
    IF IsErr(state) THEN Outcome(st, state)
    ELSE LET state1 == [state.val EXCEPT
                           !.last_update_time =
                               IF env.time > state.val.last_update_time
                               THEN env.time ELSE state.val.last_update_time,
                           !.price = price]
             state2 == IF IsSome(price_multiplier)
                       THEN [state1 EXCEPT !.price_multiplier = Unwrap(price_multiplier)]
                       ELSE state1
         IN  Outcome(store_price(st, symbol, state2), PriceFeedResponse(price))

\* the price written to every registered symbol, not only the one named
try_feed_price_AllSymbols(st, env, symbol, price, price_multiplier) ==
    LET asset == read_asset(st, symbol) IN
    IF IsErr(asset) THEN Outcome(st, asset)
    ELSE IF canonical_address(env.sender) # Ok(asset.val.feeder)
    THEN Outcome(st, Err(Unauthorized))
    ELSE LET state == read_price(st, symbol) IN
    IF IsErr(state) THEN Outcome(st, state)
    ELSE LET state1 == [state.val EXCEPT !.last_update_time = env.time,
                                         !.price = price]
             state2 == IF IsSome(price_multiplier)
                       THEN [state1 EXCEPT !.price_multiplier = Unwrap(price_multiplier)]
                       ELSE state1
         IN  Outcome([st EXCEPT !.price = [s \in Symbols |->
                          IF IsSome(st.price[s]) THEN Some(state2) ELSE None]],
                     PriceFeedResponse(price))

try_feed_price(st, env, symbol, price, price_multiplier) ==
    LET asset == read_asset(st, symbol) IN
    IF IsErr(asset) THEN Outcome(st, asset)
    ELSE LET sender == canonical_address(env.sender) IN
    IF IsErr(sender) THEN Outcome(st, sender)
    ELSE IF sender.val # asset.val.feeder THEN Outcome(st, Err(Unauthorized))
    ELSE LET state == read_price(st, symbol) IN
    IF IsErr(state) THEN Outcome(st, state)
    ELSE LET state1 == [state.val EXCEPT !.last_update_time = env.time,
                                         !.price = price]
             state2 == IF IsSome(price_multiplier)
                       THEN [state1 EXCEPT !.price_multiplier = Unwrap(price_multiplier)]
                       ELSE state1
         IN  Outcome(store_price(st, symbol, state2), PriceFeedResponse(price))

handle(st, env, msg) ==
    CASE msg.type = "UpdateConfig" -> try_update_config(st, env, msg.owner)
      [] msg.type = "RegisterAsset" ->
            try_register_asset(st, env, msg.symbol, msg.feeder, msg.token)
      [] msg.type = "FeedPrice" ->
            try_feed_price(st, env, msg.symbol, msg.price, msg.price_multiplier)

----------------------------------------------------------------------------
(* The queries *)

query_config(st) ==
    LET state == read_config(st) IN
    IF IsErr(state) THEN state
    ELSE LET owner == human_address(state.val.owner) IN
    IF IsErr(owner) THEN owner
    ELSE Ok([owner |-> owner.val, base_denom |-> state.val.base_denom])

query_asset(st, symbol) ==
    LET state == read_asset(st, symbol) IN
    IF IsErr(state) THEN state
    ELSE LET feeder == human_address(state.val.feeder) IN
    IF IsErr(feeder) THEN feeder
    ELSE LET token == human_address(state.val.token) IN
    IF IsErr(token) THEN token
    ELSE Ok([symbol |-> state.val.symbol, feeder |-> feeder.val, token |-> token.val])

\* to_binary: the serialised response; serde's encoding of these records is one-to-one,
\* so the model keeps the record inside a Binary wrapper
to_binary(resp) == Ok([binary |-> resp])

query_price(st, symbol) ==
    LET state == read_price(st, symbol) IN
    IF IsErr(state) THEN state
    ELSE Ok([price |-> state.val.price,
             price_multiplier |-> state.val.price_multiplier,
             last_update_time |-> state.val.last_update_time])

\* query takes the storage and the message only: no Env, no sender
query(st, msg) ==
    LET resp == CASE msg.type = "QueryConfig" -> query_config(st)
                  [] msg.type = "QueryAsset" -> query_asset(st, msg.symbol)
                  [] msg.type = "QueryPrice" -> query_price(st, msg.symbol)
    IN  IF IsErr(resp) THEN resp ELSE to_binary(resp.val)

----------------------------------------------------------------------------
(* The state machine: the host runs one entry point after another, each to *)
(* completion.  Nothing in init, handle or query looks at whether init has *)
(* run: init writes the Config over whatever is stored, and handle and     *)
(* query work on a storage without a Config.                               *)

\* no Env: before the first invocation, and for a query, which is handed none
NoEnv == [sender |-> "", time |-> 0]

NoCall == [env |-> NoEnv,
           msg |-> [type |-> "None"],
           res |-> Ok(HandleResponseDefault)]

Init ==
    /\ storage = EmptyStorage
    /\ now \in Times
    /\ last = NoCall
    /\ transfer = None

\* the change of owner a call made, if it made one
NextTransfer(before, after) ==
    IF IsSome(before.config) /\ IsSome(after.config)
       /\ Unwrap(after.config).owner # Unwrap(before.config).owner
    THEN Some([from |-> Unwrap(before.config).owner, to |-> Unwrap(after.config).owner])
    ELSE transfer

\* a Config written by init starts the history of its owner anew
Instantiate(env, msg) ==
    LET r == init(storage, env, msg) IN
        /\ storage' = r.storage
        /\ last' = [env |-> env, msg |-> msg, res |-> r.result]
        /\ transfer' = IF IsOk(r.result) THEN None ELSE transfer
        /\ UNCHANGED now

Handle(env, msg) ==
    LET r == handle(storage, env, msg) IN
        /\ storage' = r.storage
        /\ last' = [env |-> env, msg |-> msg, res |-> r.result]
        /\ transfer' = NextTransfer(storage, r.storage)
        /\ UNCHANGED now

\* the host moves to another block; nothing here orders the times it hands out
Tick ==
    /\ \E t \in Times \ {now} : now' = t
    /\ UNCHANGED <<storage, last, transfer>>

Query(msg) ==
    /\ last' = [env |-> NoEnv, msg |-> msg, res |-> query(storage, msg)]
    /\ UNCHANGED <<storage, now, transfer>>

QueryMsgs ==
    {[type |-> "QueryConfig"]}
    \cup {[type |-> "QueryAsset", symbol |-> s] : s \in Symbols}
    \cup {[type |-> "QueryPrice", symbol |-> s] : s \in Symbols}

Envs == [sender : Senders, time : {now}]

OptOwner == {None} \cup {Some(o) : o \in OwnerInputs}
OptMultiplier == {None} \cup {Some(m) : m \in MultiplierInputs}

DoInit ==
    \E env \in Envs, owner \in OwnerInputs, base_denom \in BaseDenoms :
        Instantiate(env, [type |-> "Init", owner |-> owner, base_denom |-> base_denom])

DoUpdateConfig ==
    \E env \in Envs, owner \in OptOwner :
        Handle(env, [type |-> "UpdateConfig", owner |-> owner])

DoRegisterAsset ==
    \E env \in Envs, symbol \in Symbols, feeder \in FeederInputs, token \in TokenInputs :
        Handle(env, [type |-> "RegisterAsset", symbol |-> symbol,
                     feeder |-> feeder, token |-> token])

DoFeedPrice ==
    \E env \in Envs, symbol \in Symbols, price \in PriceInputs,
       price_multiplier \in OptMultiplier :
        Handle(env, [type |-> "FeedPrice", symbol |-> symbol, price |-> price,
                     price_multiplier |-> price_multiplier])

DoQuery == \E msg \in QueryMsgs : Query(msg)

Next == DoInit \/ DoUpdateConfig \/ DoRegisterAsset \/ DoFeedPrice \/ DoQuery \/ Tick

Spec == Init /\ [][Next]_vars

----------------------------------------------------------------------------
(* The same machine under a host whose block time never goes back *)

TickForward ==
    /\ \E t \in Times : t > now /\ now' = t
    /\ UNCHANGED <<storage, last, transfer>>

NextMonotone ==
    DoInit \/ DoUpdateConfig \/ DoRegisterAsset \/ DoFeedPrice \/ DoQuery \/ TickForward

SpecMonotone == Init /\ [][NextMonotone]_vars

----------------------------------------------------------------------------
(* The same machine under the lifecycle the host keeps to: init is invoked *)
(* once, when the contract is created (a contract whose init fails is not  *)
(* created), and handle and query are invoked on a created contract only.  *)
(* This order is the host's; no line of the contract enforces it.          *)

Created == IsSome(storage.config)

HostInit == ~Created /\ DoInit

HostUpdateConfig == Created /\ DoUpdateConfig

HostRegisterAsset == Created /\ DoRegisterAsset

HostFeedPrice == Created /\ DoFeedPrice

HostQuery == Created /\ DoQuery

NextHost ==
    HostInit \/ HostUpdateConfig \/ HostRegisterAsset \/ HostFeedPrice \/ HostQuery \/ Tick

SpecHost == Init /\ [][NextHost]_vars

----------------------------------------------------------------------------
(* The same commands with a wider choice of the addresses a registration   *)
(* names (two feeders, two tokens, a malformed feeder) and a single price  *)
(* to feed: the machine the properties of the Asset records are checked on *)

RegistryFeeders == {"addr0000", "owner0000", "x"}
RegistryTokens == {"asset0000", "asset0001"}
RegistryPrices == {12}

DoRegisterAssetAny ==
    \E env \in Envs, symbol \in Symbols, feeder \in RegistryFeeders,
       token \in RegistryTokens :
        Handle(env, [type |-> "RegisterAsset", symbol |-> symbol,
                     feeder |-> feeder, token |-> token])

DoFeedPriceOne ==
    \E env \in Envs, symbol \in Symbols, price \in RegistryPrices :
        Handle(env, [type |-> "FeedPrice", symbol |-> symbol, price |-> price,
                     price_multiplier |-> None])

NextRegistry == DoInit \/ DoUpdateConfig \/ DoRegisterAssetAny \/ DoFeedPriceOne \/ Tick

SpecRegistry == Init /\ [][NextRegistry]_vars

----------------------------------------------------------------------------
(* Vocabulary of the properties *)

\* the address resolves to an identity
Resolves(human) == IsOk(canonical_address(human))
Identity(human) == canonical_address(human).val

\* this step is an invocation of the given message type (Tick alone moves `now`)
Called(type) == now' = now /\ last'.msg.type = type

OwnerOf(st) == Unwrap(st.config).owner

InitialPrice ==
    [price |-> DecimalZero, price_multiplier |-> DecimalOne, last_update_time |-> 0]

----------------------------------------------------------------------------
(* C1: update_config is decided by the caller being the stored owner.  In  *)
(* a state that has a Config, for every update_config invocation whose new *)
(* owner, when one is supplied, resolves to an identity: it succeeds if    *)
(* and only if the caller is the owner stored in Config at call time.      *)
(* Whatever the message, a caller who is not the owner gets Unauthorized   *)
(* and Config is left as it was.                                           *)
C1_UpdateConfigOwnerOnly ==
    [][(Called("UpdateConfig") /\ IsSome(storage.config)) =>
        LET caller == Identity(last'.env.sender)
            owner == last'.msg.owner
        IN  /\ (IsSome(owner) => Resolves(Unwrap(owner)))
                 => (IsOk(last'.res) <=> caller = OwnerOf(storage))
            /\ caller # OwnerOf(storage)
                 => /\ last'.res = Err(Unauthorized)
                    /\ storage'.config = storage.config]_vars

\* a caller other than the owner has just been refused
C1_Witness ==
    /\ IsSome(storage.config)
    /\ last.msg.type = "UpdateConfig"
    /\ last.res = Err(Unauthorized)
    /\ Identity(last.env.sender) # OwnerOf(storage)
    /\ last.msg.owner # None

(* C2: feed_price is decided by the caller being the feeder of the symbol. *)
(* For every registered symbol it succeeds if and only if the caller is    *)
(* the feeder stored in its Asset; any other caller gets Unauthorized and  *)
(* the PriceRecord of the symbol is left as it was.                        *)
C2_FeedPriceFeederOnly ==
    [][(Called("FeedPrice") /\ IsSome(storage.asset[last'.msg.symbol])) =>
        LET s == last'.msg.symbol
            caller == Identity(last'.env.sender)
            feeder == Unwrap(storage.asset[s]).feeder
        IN  /\ IsOk(last'.res) <=> caller = feeder
            /\ caller # feeder
                 => /\ last'.res = Err(Unauthorized)
                    /\ storage'.price[s] = storage.price[s]]_vars

\* a caller other than the feeder has just been refused, on a symbol that has a fed price
C2_Witness ==
    /\ last.msg.type = "FeedPrice"
    /\ last.res = Err(Unauthorized)
    /\ IsSome(storage.price[last.msg.symbol])
    /\ Unwrap(storage.price[last.msg.symbol]).price # last.msg.price
    /\ Unwrap(storage.price[last.msg.symbol]).price # DecimalZero

(* C3: a register_asset for a symbol that is already registered fails with *)
(* Unauthorized, whoever calls and whatever feeder and token it names, and *)
(* the Asset and the PriceRecord of the symbol are left as they were.      *)
C3_RegisterTwiceRejected ==
    [][(Called("RegisterAsset") /\ IsSome(storage.asset[last'.msg.symbol])) =>
        LET s == last'.msg.symbol
        IN  /\ last'.res = Err(Unauthorized)
            /\ storage'.asset[s] = storage.asset[s]
            /\ storage'.price[s] = storage.price[s]]_vars

\* a second registration has just been refused and the price fed in between is still there
C3_Witness ==
    /\ last.msg.type = "RegisterAsset"
    /\ last.res = Err(Unauthorized)
    /\ Unwrap(storage.price[last.msg.symbol]).price # DecimalZero
    /\ Unwrap(storage.price[last.msg.symbol]).last_update_time # 0

(* C4: right after a successful register_asset(s, feeder, token) the Price *)
(* query of s answers {price 0, price_multiplier 1, last_update_time 0}    *)
(* and the Asset query of s answers {s, feeder, token} with the addresses  *)
(* the registration was given.                                             *)
C4_RegistrationPairing ==
    (last.msg.type = "RegisterAsset" /\ IsOk(last.res)) =>
        /\ query_price(storage, last.msg.symbol)
             = Ok([price |-> DecimalZero, price_multiplier |-> DecimalOne,
                   last_update_time |-> 0])
        /\ query_asset(storage, last.msg.symbol)
             = Ok([symbol |-> last.msg.symbol, feeder |-> last.msg.feeder,
                   token |-> last.msg.token])

\* a registration has just succeeded, at a block time that is not 0
C4_Witness ==
    /\ last.msg.type = "RegisterAsset"
    /\ IsOk(last.res)
    /\ last.env.time # 0

(* C5: a successful feed_price that supplies no multiplier leaves the      *)
(* stored price_multiplier as it was before the call (1 when the record is *)
(* still the one registration wrote); one that supplies a multiplier m     *)
(* leaves the stored price_multiplier equal to m.                          *)
C5_MultiplierCarryOver ==
    [][(Called("FeedPrice") /\ IsOk(last'.res)) =>
        LET s == last'.msg.symbol
            m == last'.msg.price_multiplier
            before == Unwrap(storage.price[s])
            after == Unwrap(storage'.price[s])
        IN  /\ m = None => after.price_multiplier = before.price_multiplier
            /\ (m = None /\ before = InitialPrice) => after.price_multiplier = DecimalOne
            /\ IsSome(m) => after.price_multiplier = Unwrap(m)]_vars

\* a feed without a multiplier has just succeeded and a multiplier set earlier is kept
C5_Witness ==
    /\ last.msg.type = "FeedPrice"
    /\ IsOk(last.res)
    /\ last.msg.price_multiplier = None
    /\ Unwrap(storage.price[last.msg.symbol]).price_multiplier # DecimalOne

(* C6: a command that returns a failure leaves the whole store (Config,    *)
(* every Asset, every PriceRecord) as it was before the invocation; and    *)
(* after a failed registration no Asset is without its PriceRecord, nor a  *)
(* PriceRecord without its Asset.                                          *)
C6_FailureLeavesStore ==
    /\ [][(now' = now /\ last'.msg.type \in {"UpdateConfig", "RegisterAsset", "FeedPrice"}
            /\ IsErr(last'.res))
          => storage' = storage]_vars
    /\ []((last.msg.type = "RegisterAsset" /\ IsErr(last.res))
          => \A s \in Symbols : IsSome(storage.asset[s]) <=> IsSome(storage.price[s]))

\* a registration of a new symbol has just failed halfway, on its token address
C6_Witness ==
    /\ last.msg.type = "RegisterAsset"
    /\ IsErr(last.res)
    /\ last.res.err.kind = "GenericErr"
    /\ Resolves(last.msg.feeder)
    /\ ~Resolves(last.msg.token)
    /\ storage.asset[last.msg.symbol] = None

(* C7: once the owner has changed from o to o', and until it changes       *)
(* again, every update_config called by o fails with Unauthorized, with or *)
(* without a new owner, and every update_config called by o' succeeds (its *)
(* new owner, when it supplies one, being an address that resolves).       *)
C7_OwnershipHandover ==
    [][(Called("UpdateConfig") /\ IsSome(transfer)) =>
        LET caller == Identity(last'.env.sender)
            owner == last'.msg.owner
        IN  /\ caller = Unwrap(transfer).from => last'.res = Err(Unauthorized)
            /\ (caller = Unwrap(transfer).to
                /\ (IsSome(owner) => Resolves(Unwrap(owner))))
                 => IsOk(last'.res)]_vars

\* the previous owner has just been refused a call that supplies no new owner
C7_Witness ==
    /\ IsSome(transfer)
    /\ last.msg.type = "UpdateConfig"
    /\ last.msg.owner = None
    /\ Identity(last.env.sender) = Unwrap(transfer).from
    /\ last.res = Err(Unauthorized)
    /\ OwnerOf(storage) = Unwrap(transfer).to

(* C8: feed_price for a symbol that has no Asset fails with the error "no  *)
(* asset data stored" whoever calls, and the symbol has no Asset and no    *)
(* PriceRecord afterwards.                                                 *)
C8_FeedUnregistered ==
    [][(Called("FeedPrice") /\ storage.asset[last'.msg.symbol] = None) =>
        /\ last'.res = Err(generic_err("no asset data stored"))
        /\ storage'.asset[last'.msg.symbol] = None
        /\ storage'.price[last'.msg.symbol] = None]_vars

\* a feed for an unregistered symbol has just failed, while the other symbol is registered
C8_Witness ==
    /\ last.msg.type = "FeedPrice"
    /\ last.res = Err(generic_err("no asset data stored"))
    /\ storage.asset[last.msg.symbol] = None
    /\ \E s \in Symbols : IsSome(storage.asset[s])

(* C9, as stated: an Asset is created only by a register_asset whose       *)
(* caller is the owner stored in Config at that time.                      *)
C9_RegistrationOwnerGated ==
    [][(Called("RegisterAsset") /\ IsOk(last'.res))
        => /\ IsSome(storage.config)
           /\ Identity(last'.env.sender) = OwnerOf(storage)]_vars

(* C9, amended: registration is not owner-gated.  An Asset comes into      *)
(* being, or changes, only in a successful register_asset for its symbol,  *)
(* the symbol being unregistered before; the caller may be any identity.   *)
C9_AssetOnlyByRegistration ==
    [][\A s \in Symbols :
        storage'.asset[s] # storage.asset[s] =>
            /\ Called("RegisterAsset")
            /\ IsOk(last'.res)
            /\ last'.msg.symbol = s
            /\ storage.asset[s] = None
            /\ storage'.asset[s] =
                 Some([symbol |-> s, feeder |-> Identity(last'.msg.feeder),
                       token |-> Identity(last'.msg.token)])]_vars

\* an identity that is not the owner has just registered an Asset
C9_Witness ==
    /\ IsSome(storage.config)
    /\ last.msg.type = "RegisterAsset"
    /\ IsOk(last.res)
    /\ IsSome(storage.asset[last.msg.symbol])
    /\ Identity(last.env.sender) # OwnerOf(storage)

(* C10: register_asset for a symbol that is not registered succeeds for    *)
(* any caller, owner or not (the feeder and token it names being addresses *)
(* that resolve); with such a message it fails only when the symbol is     *)
(* already registered.                                                     *)
C10_RegistrationOpen ==
    [][(Called("RegisterAsset")
        /\ Resolves(last'.msg.feeder) /\ Resolves(last'.msg.token))
        => (IsOk(last'.res) <=> storage.asset[last'.msg.symbol] = None)]_vars

\* a caller who is neither the owner nor the feeder it names has just registered a symbol
C10_Witness ==
    /\ IsSome(storage.config)
    /\ last.msg.type = "RegisterAsset"
    /\ IsOk(last.res)
    /\ Identity(last.env.sender) # OwnerOf(storage)
    /\ Identity(last.env.sender) # Identity(last.msg.feeder)

----------------------------------------------------------------------------
(* C12: in every reachable state the symbols that have a PriceRecord are   *)
(* the symbols that have an Asset.                                         *)
C12_PriceIffAsset ==
    \A s \in Symbols : IsSome(storage.price[s]) <=> IsSome(storage.asset[s])

\* one symbol registered and fed, the other not registered, after a change of owner
C12_Witness ==
    /\ IsSome(transfer)
    /\ \E s \in Symbols :
        /\ IsSome(storage.asset[s]) /\ IsSome(storage.price[s])
        /\ Unwrap(storage.price[s]).price # DecimalZero
        /\ \E r \in Symbols : storage.asset[r] = None /\ storage.price[r] = None

(* C13: once a symbol is registered its Asset stays and never changes: no  *)
(* step of any command alters or removes it, and it is the Asset its       *)
(* registration wrote, {symbol, feeder, token} as given to it.             *)
C13_AssetImmutable ==
    [][\A s \in Symbols :
        /\ IsSome(storage.asset[s]) => storage'.asset[s] = storage.asset[s]
        /\ (storage.asset[s] = None /\ IsSome(storage'.asset[s])) =>
              storage'.asset[s] =
                 Some([symbol |-> s, feeder |-> Identity(last'.msg.feeder),
                       token |-> Identity(last'.msg.token)])]_vars

\* a registered and fed symbol whose re-registration, naming another feeder and another
\* token, was refused after the owner had changed: the Asset is still the one first written
C13_Witness ==
    /\ IsSome(transfer)
    /\ last.msg.type = "RegisterAsset"
    /\ last.res = Err(Unauthorized)
    /\ IsSome(storage.asset[last.msg.symbol])
    /\ Resolves(last.msg.feeder)
    /\ Resolves(last.msg.token)
    /\ Unwrap(storage.asset[last.msg.symbol]).feeder # Identity(last.msg.feeder)
    /\ Unwrap(storage.asset[last.msg.symbol]).token # Identity(last.msg.token)
    /\ Unwrap(storage.price[last.msg.symbol]).price # DecimalZero

(* C14: the PriceRecord of a registered symbol changes only in a step that *)
(* is a successful feed_price for that symbol called by its feeder; no     *)
(* update_config, register_asset, feed_price for another symbol or call by *)
(* another identity changes its price, multiplier or update time.          *)
C14_PriceOnlyByFeeder ==
    [][\A s \in Symbols :
        (IsSome(storage.price[s]) /\ storage'.price[s] # storage.price[s]) =>
            /\ Called("FeedPrice")
            /\ IsOk(last'.res)
            /\ last'.msg.symbol = s
            /\ Identity(last'.env.sender) = Unwrap(storage.asset[s]).feeder]_vars

\* the feeder has just fed one symbol while the other, registered too, is as registered
C14_Witness ==
    /\ last.msg.type = "FeedPrice"
    /\ IsOk(last.res)
    /\ Identity(last.env.sender) = Unwrap(storage.asset[last.msg.symbol]).feeder
    /\ \E r \in Symbols \ {last.msg.symbol} : storage.price[r] = Some(InitialPrice)

(* C15: after a successful feed_price(s, price, ..) the stored price of s  *)
(* is the price supplied and the stored last_update_time of s is the block *)
(* time of that invocation, whatever was stored before.                    *)
C15_FeedOverwrites ==
    (last.msg.type = "FeedPrice" /\ IsOk(last.res)) =>
        /\ Unwrap(storage.price[last.msg.symbol]).price = last.msg.price
        /\ Unwrap(storage.price[last.msg.symbol]).last_update_time = last.env.time

\* a feed at block time 0 with the lower price has just succeeded on a record fed before
C15_Witness ==
    /\ last.msg.type = "FeedPrice"
    /\ IsOk(last.res)
    /\ last.env.time = 0
    /\ last.msg.price = 5
    /\ last.msg.price_multiplier = None
    /\ Unwrap(storage.price[last.msg.symbol]).price_multiplier # DecimalOne

(* C16: under the host's lifecycle (init invoked once, at creation): once  *)
(* init has succeeded the Config record is there in every later state with *)
(* the base_denom init was given, and its owner changes only in a          *)
(* successful update_config called by the owner of that moment with a new  *)
(* owner supplied, to that new owner.                                      *)
C16_ConfigPermanent ==
    /\ [][(Called("Init") /\ IsOk(last'.res)) =>
            storage'.config = Some([owner |-> Identity(last'.msg.owner),
                                    base_denom |-> last'.msg.base_denom])]_vars
    /\ [][IsSome(storage.config) =>
            /\ IsSome(storage'.config)
            /\ Unwrap(storage'.config).base_denom = Unwrap(storage.config).base_denom
            /\ OwnerOf(storage') # OwnerOf(storage) =>
                 /\ Called("UpdateConfig")
                 /\ IsOk(last'.res)
                 /\ Identity(last'.env.sender) = OwnerOf(storage)
                 /\ IsSome(last'.msg.owner)
                 /\ OwnerOf(storage') = Identity(Unwrap(last'.msg.owner))]_vars

\* the owner has changed and changed back, and the base_denom is the one init was given
C16_Witness ==
    /\ IsSome(transfer)
    /\ Unwrap(transfer).to = Identity("owner0000")
    /\ last.msg.type = "UpdateConfig"
    /\ IsOk(last.res)
    /\ OwnerOf(storage) = Identity("owner0000")
    /\ Unwrap(storage.config).base_denom \in BaseDenoms

(* C17: in a state that has a Config, update_config called by the owner    *)
(* with no new owner succeeds and leaves Config, every Asset and every     *)
(* PriceRecord as they were; called by anyone else with no new owner it    *)
(* fails with Unauthorized.                                                *)
C17_UpdateConfigNoOp ==
    [][(Called("UpdateConfig") /\ IsSome(storage.config) /\ last'.msg.owner = None) =>
        IF Identity(last'.env.sender) = OwnerOf(storage)
        THEN IsOk(last'.res) /\ storage' = storage
        ELSE last'.res = Err(Unauthorized)]_vars

\* the owner has just made such a call, with a symbol registered and fed
C17_Witness ==
    /\ last.msg.type = "UpdateConfig"
    /\ last.msg.owner = None
    /\ IsOk(last.res)
    /\ Identity(last.env.sender) = OwnerOf(storage)
    /\ \E s \in Symbols :
          IsSome(storage.price[s]) /\ Unwrap(storage.price[s]).price # DecimalZero

\* the text of each price of PriceInputs, as Decimal prints it
ExpectedPriceText == [p \in PriceInputs |-> IF p = 5 THEN "0.5" ELSE "1.2"]

(* C18: a successful feed_price returns no messages and a log of exactly   *)
(* two entries, action = "price_feed" and price = the supplied price as    *)
(* Decimal prints it; a successful update_config or register_asset returns *)
(* an empty log; a failed command returns an error and no response.        *)
C18_ResponseLog ==
    /\ (last.msg.type = "FeedPrice" /\ IsOk(last.res)) =>
          /\ last.res.val.messages = <<>>
          /\ last.res.val.log = <<[key |-> "action", value |-> "price_feed"],
                                  [key |-> "price",
                                   value |-> ExpectedPriceText[last.msg.price]]>>
    /\ (last.msg.type \in {"UpdateConfig", "RegisterAsset"} /\ IsOk(last.res)) =>
          /\ last.res.val.messages = <<>>
          /\ last.res.val.log = <<>>
    /\ (last.msg.type \in {"UpdateConfig", "RegisterAsset", "FeedPrice"}
        /\ IsErr(last.res)) => DOMAIN last.res = {"ok", "err"}

\* a feed of 1.2 has just succeeded
C18_Witness ==
    /\ last.msg.type = "FeedPrice"
    /\ IsOk(last.res)
    /\ last.msg.price = 12
    /\ Len(last.res.val.log) = 2

(* C19: a successful feed_price for s leaves Config, every Asset and the   *)
(* PriceRecord of every other symbol as they were; a successful            *)
(* register_asset for s leaves Config and the Asset and PriceRecord of     *)
(* every other symbol as they were; a successful update_config leaves      *)
(* every Asset and PriceRecord as they were, so that whoever could feed a  *)
(* symbol before it can feed it after it.                                  *)
C19_Frame ==
    [][/\ (Called("FeedPrice") /\ IsOk(last'.res)) =>
            /\ storage'.config = storage.config
            /\ storage'.asset = storage.asset
            /\ \A r \in Symbols \ {last'.msg.symbol} :
                  storage'.price[r] = storage.price[r]
       /\ (Called("RegisterAsset") /\ IsOk(last'.res)) =>
            /\ storage'.config = storage.config
            /\ \A r \in Symbols \ {last'.msg.symbol} :
                  /\ storage'.asset[r] = storage.asset[r]
                  /\ storage'.price[r] = storage.price[r]
       /\ (Called("UpdateConfig") /\ IsOk(last'.res)) =>
            /\ storage'.asset = storage.asset
            /\ storage'.price = storage.price
            /\ \A s \in Symbols, c \in Senders, p \in PriceInputs :
                  IsOk(try_feed_price(storage', [sender |-> c, time |-> now], s, p, None).result)
                  <=> IsOk(try_feed_price(storage, [sender |-> c, time |-> now], s, p, None).result)
      ]_vars

\* after a change of owner the feeder, who is not the owner, has just fed one symbol
\* while the other is registered
C19_Witness ==
    /\ IsSome(transfer)
    /\ last.msg.type = "FeedPrice"
    /\ IsOk(last.res)
    /\ Identity(last.env.sender) # OwnerOf(storage)
    /\ \A s \in Symbols : IsSome(storage.asset[s])

(* C20: under a host whose block time never goes back from one invocation  *)
(* to the next, the stored last_update_time of a symbol never decreases;   *)
(* it is 0 when the symbol is registered and stays 0 in every step that is *)
(* not a successful feed_price for that symbol.                            *)
C20_UpdateTimeMonotone ==
    [][\A s \in Symbols :
        /\ (storage.price[s] = None /\ IsSome(storage'.price[s])) =>
              Unwrap(storage'.price[s]).last_update_time = 0
        /\ IsSome(storage.price[s]) =>
              /\ IsSome(storage'.price[s])
              /\ Unwrap(storage'.price[s]).last_update_time
                    >= Unwrap(storage.price[s]).last_update_time
              /\ (Unwrap(storage.price[s]).last_update_time = 0
                  /\ ~(Called("FeedPrice") /\ IsOk(last'.res) /\ last'.msg.symbol = s))
                    => Unwrap(storage'.price[s]).last_update_time = 0]_vars

\* one symbol fed at a block time later than 0, the other still with update time 0
C20_Witness ==
    /\ now > 0
    /\ last.msg.type = "FeedPrice"
    /\ IsOk(last.res)
    /\ last.env.time = now
    /\ \E r \in Symbols \ {last.msg.symbol} :
          /\ IsSome(storage.price[r])
          /\ Unwrap(storage.price[r]).last_update_time = 0

====
